---- MODULE Spec2Model ----
(***************************************************************************)
(* A model of the BlueShark backend (src/backend/app.py and                *)
(* src/backend/external_apis.py): the Firestore collections "locations"    *)
(* and "ratings", the rating handler submit_rating, the persistence sync   *)
(* save_external_locations_to_firebase, the location query get_locations,  *)
(* the paginated fetch get_refuge_restrooms with its cache, the            *)
(* aggregation get_all_external_locations and its callers                  *)
(* get_external_locations and update_all_external_locations.               *)
(*                                                                         *)
(* A Python dict is a function from its keys (strings) to values.  A       *)
(* Firestore document is such a dict stored under a document id; document  *)
(* ids are positive integers handed out by a counter (Firestore hands out  *)
(* fresh random ids: all that matters is that they are fresh).             *)
(***************************************************************************)
EXTENDS Integers, Sequences, FiniteSets, TLC

VARIABLES
    locations,   \* collection 'locations': document id -> dict
    ratings,     \* collection 'ratings': sequence of dicts, index = document id
    nextId,      \* next fresh document id of 'locations'
    now,         \* the clock (epoch millis, abstracted to a small counter)
    sub,         \* the submit_rating requests: request -> local state
    syn,         \* the save_external_locations_to_firebase calls: call -> local state
    overlap,     \* history: some sync call started while another was in progress
    qry,         \* the get_locations request: its parameters and its list
    rf,          \* the get_refuge_restrooms call: its locals and the pages it asked for
    api_cache,   \* external_apis.api_cache: cache key -> [data, timestamp]
    agg,         \* the get_all_external_locations call
    ext          \* the caller of the aggregation: GET /api/external-locations or
                 \* update_all_external_locations, and the list it hands to the sync

vars == <<locations, ratings, nextId, now, sub, syn, overlap, qry, rf, api_cache, agg, ext>>

-----------------------------------------------------------------------------
(* Bounds of the model *)

\* number of submit_rating requests
MaxSubmits == 2
\* number of save_external_locations_to_firebase calls
MaxSyncs == 2
\* longest list of locations handed to one sync call
MaxBatch == 2
\* document ids a rating's location_id is drawn from: 0 (none) .. MaxLocId
MaxLocId == 1

SubmitIds == 1..MaxSubmits
SyncIds == 1..MaxSyncs

-----------------------------------------------------------------------------
(* Python dicts *)

\* Python's None
None == "None"

EmptyDict == [k \in {} |-> None]

\* dict.get(k, default)
Get(d, k, default) == IF k \in DOMAIN d THEN d[k] ELSE default

\* d[k] = v
Put(d, k, v) == (k :> v) @@ d

\* Python truthiness of an optional string (None and '' are falsy)
TruthyStr(v) == v # None /\ v # ""

\* document(None) makes a reference with a fresh id, which no document has
NoDoc == 0

-----------------------------------------------------------------------------
(* Inputs *)

\* The 'sentiment' of a request's rating: the three the handler knows, one it
\* does not know, and None for a rating dict without the key.
Sentiments == {"positive", "neutral", "negative", "meh", None}

\* request.json['rating']: a dict with an optional sentiment and location_id
MkRating(sentiment, location_id) ==
    (IF sentiment = None THEN EmptyDict ELSE [sentiment |-> sentiment])
    @@ (IF location_id = NoDoc THEN EmptyDict ELSE [location_id |-> location_id])

RatingInputs == {MkRating(s, l) : s \in Sentiments, l \in 0..MaxLocId}

\* request.json['locationData']: absent or empty, a plain user-submitted
\* location, and one that carries count fields of its own.
LocationDataInputs ==
    { EmptyDict,
      [name |-> "Cafe", type |-> "restroom", lat |-> 2, lng |-> 0],
      [name |-> "Cafe", type |-> "restroom", lat |-> 2, lng |-> 0,
       positive_count |-> 2, neutral_count |-> 0, negative_count |-> 2,
       total_ratings |-> 3] }

\* The keys (source, external_id) of the external records the adapters return.
\* str(row.get("OBJECTID", "")) is '' for every row of a file without that column.
ExternalKeys == {<<"refuge_restrooms", "101">>, <<"csv", "">>}

KeyType(k) == IF k[1] = "csv" THEN "police" ELSE "restroom"
KeyLat(k) == IF k[1] = "csv" THEN 4 ELSE 1

\* The remote data may change between two fetches: the name and the address
\* a source reports at time t.
NameAt(t) == <<"Name A", "Name B", "Name C", "Name D", "Name E">>[t]
AddressAt(t) == <<"1 A St", "2 B St", "3 C St", "4 D St", "5 E St">>[t]

\* The normalized record an adapter builds for key k at time t (name, address
\* and position as the source reports them then; last_updated is the clock).
ExternalRecord(k, t) ==
    [ name |-> NameAt(t), type |-> KeyType(k), address |-> AddressAt(t),
      lat |-> KeyLat(k) + t, lng |-> 0,
      positive_count |-> 0, neutral_count |-> 0, negative_count |-> 0,
      total_ratings |-> 0,
      source |-> k[1], external_id |-> k[2], last_updated |-> t ]

\* The lists of keys one aggregation may return (a key may come twice)
KeyLists == UNION {[1..n -> ExternalKeys] : n \in 1..MaxBatch}

-----------------------------------------------------------------------------
(* submit_rating, app.py 342-405 *)

\* The count fields of a new location, lines 364-368
InitialCounts(sentiment) ==
    [ positive_count |-> IF sentiment = "positive" THEN 1 ELSE 0,
      neutral_count  |-> IF sentiment = "neutral" THEN 1 ELSE 0,
      negative_count |-> IF sentiment = "negative" THEN 1 ELSE 0,
      total_ratings  |-> 1 ]

\* (a slip of lines 389-394: the negative rating counted as a positive one)
IncrementUpdatesSwapped(sentiment) ==
    [total_ratings |-> 1]
    @@ (IF sentiment \in {"positive", "negative"} THEN [positive_count |-> 1]
        ELSE IF sentiment = "neutral" THEN [neutral_count |-> 1]
        ELSE EmptyDict)

\* The increments of an existing location, lines 384-394: field -> amount
IncrementUpdates(sentiment) ==
    [total_ratings |-> 1]
    @@ (IF sentiment = "positive" THEN [positive_count |-> 1]
        ELSE IF sentiment = "neutral" THEN [neutral_count |-> 1]
        ELSE IF sentiment = "negative" THEN [negative_count |-> 1]
        ELSE EmptyDict)

\* (a slip of lines 385-394: the amounts written as plain values)
ApplyIncrementsAsValues(doc, incs) == incs @@ doc

\* DocumentReference.update with firestore.Increment values: each named field
\* is increased in the stored document (a missing field counts as 0).
ApplyIncrements(doc, incs) ==
    [f \in DOMAIN doc \cup DOMAIN incs |->
        IF f \in DOMAIN incs THEN Get(doc, f, 0) + incs[f] ELSE doc[f]]

\* Line 382, location.exists: the reference names a stored document
LocationExistsAlways(store, ref) == TRUE

LocationExists(store, ref) == ref \in DOMAIN store

\* The branch taken at line 359: "if is_new_location and location_data"
TakesCreateBranch(is_new_location, location_data) ==
    is_new_location /\ location_data # EmptyDict

SubIdle == [pc |-> "idle", rating_data |-> EmptyDict, is_new_location |-> FALSE,
            location_data |-> EmptyDict, rating_ref |-> NoDoc,
            location_ref |-> NoDoc, status |-> 0]

\* The handler has returned: its locals are gone, its response status stays
SubDone(p, status) == [SubIdle EXCEPT !.pc = "done", !.status = status,
                                      !.is_new_location = sub[p].is_new_location,
                                      !.rating_ref = sub[p].rating_ref,
                                      !.location_ref = sub[p].location_ref]

\* Lines 346-359: read the body, stamp the rating, add it to 'ratings', take
\* the branch of line 359 (location_data is not read again on the else branch)
SubmitSetRating(p, rating, is_new, ldata) ==
    /\ sub[p].pc = "idle"
    /\ \A q \in SubmitIds : q < p => sub[q].pc # "idle"
    /\ LET stamped == Put(rating, "timestamp", now)
           create == TakesCreateBranch(is_new, ldata) IN
       /\ ratings' = Append(ratings, stamped)
       /\ sub' = [sub EXCEPT ![p] =
                    [pc |-> IF create THEN "create" ELSE "get",
                     rating_data |-> stamped, is_new_location |-> is_new,
                     location_data |-> IF create THEN ldata ELSE EmptyDict,
                     rating_ref |-> Len(ratings) + 1,
                     location_ref |-> NoDoc, status |-> 0]]
    /\ UNCHANGED <<locations, nextId, now, syn, overlap, qry, rf, api_cache, agg, ext>>

\* Lines 360-370: create the new location with its initial counts
SubmitCreate(p) ==
    /\ sub[p].pc = "create"
    /\ LET sentiment == Get(sub[p].rating_data, "sentiment", None)
           data == InitialCounts(sentiment) @@ sub[p].location_data IN
       /\ locations' = (nextId :> data) @@ locations
       /\ sub' = [sub EXCEPT ![p].pc = "link", ![p].location_ref = nextId,
                             ![p].location_data = data]
    /\ nextId' = nextId + 1
    /\ UNCHANGED <<ratings, now, syn, overlap, qry, rf, api_cache, agg, ext>>

\* (a slip of line 373: the rating stamped again with the link)
LinkFieldsStamped(location_id) == [location_id |-> location_id, timestamp |-> 0]

\* Line 373: the fields rating_ref.update writes to the rating
LinkFields(location_id) == [location_id |-> location_id]

\* Lines 372-376: write the new location's id into the rating, answer 201
SubmitLink(p) ==
    /\ sub[p].pc = "link"
    /\ ratings' = [ratings EXCEPT ![sub[p].rating_ref] =
                      LinkFields(sub[p].location_ref) @@ @]
    /\ sub' = [sub EXCEPT ![p] = SubDone(p, 201)]
    /\ UNCHANGED <<locations, nextId, now, syn, overlap, qry, rf, api_cache, agg, ext>>

\* Lines 379-382: look the rating's location up
SubmitGet(p) ==
    /\ sub[p].pc = "get"
    /\ LET ref == Get(sub[p].rating_data, "location_id", NoDoc) IN
       sub' = [sub EXCEPT ![p].location_ref = ref,
                          ![p].pc = IF LocationExists(locations, ref)
                                    THEN "update" ELSE "notfound"]
    /\ UNCHANGED <<locations, ratings, nextId, now, syn, overlap, qry, rf, api_cache, agg, ext>>

\* Lines 383-399: increment the counts of the location, answer 201
SubmitUpdate(p) ==
    /\ sub[p].pc = "update"
    /\ LET sentiment == Get(sub[p].rating_data, "sentiment", None) IN
       locations' = [locations EXCEPT ![sub[p].location_ref] =
                        ApplyIncrements(@, IncrementUpdates(sentiment))]
    /\ sub' = [sub EXCEPT ![p] = SubDone(p, 201)]
    /\ UNCHANGED <<ratings, nextId, now, syn, overlap, qry, rf, api_cache, agg, ext>>

\* Lines 400-402: answer 404
SubmitNotFound(p) ==
    /\ sub[p].pc = "notfound"
    /\ sub' = [sub EXCEPT ![p] = SubDone(p, 404)]
    /\ UNCHANGED <<locations, ratings, nextId, now, syn, overlap, qry, rf, api_cache, agg, ext>>

\* Lines 403-405: a store call of the handler raises, answer 500
SubmitError(p) ==
    /\ sub[p].pc \in {"create", "link", "get", "update"}
    /\ sub' = [sub EXCEPT ![p] = SubDone(p, 500)]
    /\ UNCHANGED <<locations, ratings, nextId, now, syn, overlap, qry, rf, api_cache, agg, ext>>

-----------------------------------------------------------------------------
(* save_external_locations_to_firebase, external_apis.py 354-393 *)

\* Line 368: the documents with the location's external_id and source
ExistingDocs(store, location) ==
    {id \in DOMAIN store :
        /\ Get(store[id], "external_id", None) = Get(location, "external_id", None)
        /\ Get(store[id], "source", None) = Get(location, "source", None)}

\* (a slip of lines 374-380: the whole record written over the document)
UpdateFieldsWhole(location) == location

\* Lines 374-380: the fields batch.update writes to an existing document
UpdateFields(location) ==
    [ name |-> Get(location, "name", None),
      address |-> Get(location, "address", None),
      lat |-> Get(location, "lat", None),
      lng |-> Get(location, "lng", None),
      last_updated |-> Get(location, "last_updated", None) ]

\* One write of a batch: update merges the fields, set stores the dict
ApplyWrite(store, w) ==
    IF w.op = "update"
    THEN [store EXCEPT ![w.ref] = w.data @@ @]
    ELSE (w.ref :> w.data) @@ store

\* Line 388, batch.commit(): all writes of the batch, in order, at once
RECURSIVE ApplyBatch(_, _)
ApplyBatch(store, batch) ==
    IF batch = <<>> THEN store
    ELSE ApplyBatch(ApplyWrite(store, Head(batch)), Tail(batch))

SynIdle == [pc |-> "idle", locations |-> <<>>, i |-> 1, batch |-> <<>>, failed |-> FALSE]

SyncInProgress(s) == syn[s].pc \in {"loop", "commit"}

\* Lines 362-364: the call starts with the records aggregated at time `now`
SyncStart(s, keys) ==
    /\ syn[s].pc = "idle"
    /\ \A r \in SyncIds : r < s => syn[r].pc # "idle"
    /\ syn' = [syn EXCEPT ![s] =
                 [pc |-> "loop",
                  locations |-> [j \in 1..Len(keys) |-> ExternalRecord(keys[j], now)],
                  i |-> 1, batch |-> <<>>, failed |-> FALSE]]
    /\ overlap' = (overlap \/ \E r \in SyncIds : SyncInProgress(r))
    /\ now' = now + 1
    /\ UNCHANGED <<locations, ratings, nextId, sub, qry, rf, api_cache, agg, ext>>

\* Lines 366-385, one round of the loop: look the location up, queue an update
\* of the first document found or a set of a new document.  Line 384 writes
\* the new id into the location dict, which is the caller's: the list of the
\* caller that handed its records to this call (ext.saver) holds the same dict
SyncLookup(s) ==
    /\ syn[s].pc = "loop"
    /\ LET location == syn[s].locations[syn[s].i]
           existing_docs == ExistingDocs(locations, location)
           next_pc == IF syn[s].i = Len(syn[s].locations) THEN "commit" ELSE "loop"
       IN
       IF existing_docs # {}
       THEN /\ \E doc \in existing_docs :
                 syn' = [syn EXCEPT ![s].batch =
                            Append(@, [op |-> "update", ref |-> doc,
                                       data |-> UpdateFields(location)]),
                                    ![s].i = @ + 1, ![s].pc = next_pc]
            /\ UNCHANGED <<nextId, ext>>
       ELSE /\ syn' = [syn EXCEPT ![s].locations[syn[s].i] = Put(location, "id", nextId),
                                  ![s].batch =
                                      Append(@, [op |-> "set", ref |-> nextId,
                                                 data |-> Put(location, "id", nextId)]),
                                  ![s].i = @ + 1, ![s].pc = next_pc]
            /\ nextId' = nextId + 1
            /\ ext' = IF ext.saver = s
                      THEN [ext EXCEPT !.all_locations[syn[s].i] = Put(location, "id", nextId)]
                      ELSE ext
    /\ UNCHANGED <<locations, ratings, now, sub, overlap, qry, rf, api_cache, agg>>

\* Lines 387-389: commit the batch
SyncCommit(s) ==
    /\ syn[s].pc = "commit"
    /\ locations' = ApplyBatch(locations, syn[s].batch)
    /\ syn' = [syn EXCEPT ![s] = [SynIdle EXCEPT !.pc = "done"]]
    /\ UNCHANGED <<ratings, nextId, now, sub, overlap, qry, rf, api_cache, agg, ext>>

\* Lines 391-393: a store call raises; the error is logged, nothing is written
SyncFail(s) ==
    /\ SyncInProgress(s)
    /\ syn' = [syn EXCEPT ![s] = [SynIdle EXCEPT !.pc = "done", !.failed = TRUE]]
    /\ UNCHANGED <<locations, ratings, nextId, now, sub, overlap, qry, rf, api_cache, agg, ext>>

-----------------------------------------------------------------------------
(* Numbers *)

\* A Python float is an exact fraction <<numerator, denominator>> with a
\* positive denominator (the rounding of the floating point is left out).
Frac(n, d) == <<n, d>>
FracOfInt(n) == <<n, 1>>
FracAddInt(x, n) == <<x[1] + n * x[2], x[2]>>
FracDivInt(x, n) == <<x[1], x[2] * n>>
FracMulInt(x, n) == <<x[1] * n, x[2]>>
FracLess(x, y) == x[1] * y[2] < y[1] * x[2]

Abs(n) == IF n < 0 THEN 0 - n ELSE n

\* float(s) of a request parameter: the strings that parse, and their values
IsFloat(s) == s \in {"0", "1"}
ParseFloat(s) == IF s = "1" THEN 1 ELSE 0

\* calculate_distance, app.py 69-80.  The places of the model lie on one
\* meridian (lng 0) and a latitude is counted in arcs of one kilometre
\* (180 / (6371 * pi) degrees): dLon is 0, a is sin(dLat/2)^2, c is |dLat|
\* and R * c is the number of arcs between the two latitudes.
calculate_distance(lat1, lon1, lat2, lon2) == Abs(lat2 - lat1)

-----------------------------------------------------------------------------
(* get_locations, app.py 84-210 *)

\* Lines 105-106: the type filter of the Firestore query
TypeFilterApplies(location_type) == TruthyStr(location_type) /\ location_type # "all"

MaxOf(S) == IF S = {} THEN 0 ELSE CHOOSE m \in S : \A n \in S : n <= m

\* Lines 109-111, query.stream(): the documents of the query in the order of
\* their ids, each as a dict with its id
RECURSIVE StreamFrom(_, _, _)
StreamFrom(store, location_type, id) ==
    IF id > MaxOf(DOMAIN store) THEN <<>>
    ELSE (IF /\ id \in DOMAIN store
             /\ TypeFilterApplies(location_type)
                   => Get(store[id], "type", None) = location_type
          THEN <<Put(store[id], "id", id)>> ELSE <<>>)
         \o StreamFrom(store, location_type, id + 1)

\* Lines 119-122: the normalized rating of a location with ratings
NormalizedRating(location) ==
    LET positive_weight == Get(location, "positive_count", 0)
        negative_weight == (0 - 1) * Get(location, "negative_count", 0)
        total_weight == positive_weight + negative_weight
    IN FracMulInt(FracDivInt(FracAddInt(Frac(total_weight, location["total_ratings"]), 1), 2), 5)

\* (a slip of lines 127-130: the unrated location dropped whatever its source)
RatingSkipsUnrated(location, rating_min) ==
    IF Get(location, "total_ratings", 0) > 0
    THEN FracLess(NormalizedRating(location), rating_min)
    ELSE FracLess(FracOfInt(0), rating_min)

\* Lines 118-130: the rating filter skips the location
RatingSkips(location, rating_min) ==
    IF Get(location, "total_ratings", 0) > 0
    THEN FracLess(NormalizedRating(location), rating_min)
    ELSE FracLess(FracOfInt(0), rating_min) /\ ~TruthyStr(Get(location, "source", None))

\* Lines 133-144: the distance filter of a persisted location skips it
\* (a coordinate that does not parse raises ValueError: no filter)
DistanceSkips(location, user_lat, user_lng, radius) ==
    /\ TruthyStr(user_lat) /\ TruthyStr(user_lng) /\ radius > 0
    /\ IsFloat(user_lat) /\ IsFloat(user_lng)
    /\ calculate_distance(ParseFloat(user_lat), ParseFloat(user_lng),
                          Get(location, "lat", 0), Get(location, "lng", 0)) > radius

\* Lines 113-115: a persisted external location is skipped when not asked for
ExternalSkips(location, include_external) ==
    ~include_external /\ TruthyStr(Get(location, "source", None))

\* Lines 109-146: the persisted locations that go into the list
RECURSIVE PersistedPass(_, _)
PersistedPass(docs, q) ==
    IF docs = <<>> THEN <<>>
    ELSE (IF \/ ExternalSkips(Head(docs), q.include_external)
             \/ RatingSkips(Head(docs), q.rating_min)
             \/ DistanceSkips(Head(docs), q.user_lat, q.user_lng, q.radius)
          THEN <<>> ELSE <<Head(docs)>>)
         \o PersistedPass(Tail(docs), q)

\* Line 152: fresh external data is fetched
FetchesExternal(q) == q.include_external /\ TruthyStr(q.user_lat) /\ TruthyStr(q.user_lng)

\* (a slip of line 188: >= for >)
ExternalDistanceSkipsAtRadius(location, user_lat_float, user_lng_float, radius) ==
    LET radius_val == IF radius > 0 THEN radius ELSE 10 IN
    /\ radius > 0
    /\ calculate_distance(user_lat_float, user_lng_float,
                          Get(location, "lat", 0), Get(location, "lng", 0)) >= radius_val

\* Lines 183-190: the distance filter of a fetched location skips it
ExternalDistanceSkips(location, user_lat_float, user_lng_float, radius) ==
    LET radius_val == IF radius > 0 THEN radius ELSE 10 IN
    /\ radius > 0
    /\ calculate_distance(user_lat_float, user_lng_float,
                          Get(location, "lat", 0), Get(location, "lng", 0)) > radius_val

\* Line 194, f"{source}-{location.get('external_id', '')}": the parts of the string
SynthesizedId(source, location) == <<source, "-", Get(location, "external_id", "")>>

\* Lines 175-197: the fetched locations that go into the list; `fetched` is
\* external_data, flattened in the order of its sources: a sequence of
\* [source, location]
RECURSIVE ExternalPass(_, _)
ExternalPass(fetched, q) ==
    IF fetched = <<>> THEN <<>>
    ELSE LET source == Head(fetched).source
             location == Head(fetched).location
         IN (IF \/ /\ TypeFilterApplies(q.location_type)
                   /\ Get(location, "type", None) # q.location_type
                \/ ExternalDistanceSkips(location, ParseFloat(q.user_lat),
                                         ParseFloat(q.user_lng), q.radius)
             THEN <<>>
             ELSE <<IF "id" \in DOMAIN location THEN location
                    ELSE Put(location, "id", SynthesizedId(source, location))>>)
            \o ExternalPass(Tail(fetched), q)

\* The parameters of a request
LocationTypes == {None, "all", "police"}
RatingMins == {FracOfInt(0), Frac(15, 4), FracOfInt(5)}
Radii == {0, 2}
UserLats == {None, "abc", "0", "1"}
UserLngs == {None, "0"}

\* The key of external_data a source's records come under, lines 348-352
SourceGroup(k) == IF k[1] = "csv" THEN "police_stations" ELSE "refuge_restrooms"

\* What get_all_external_locations may return to the request: up to
\* MaxFetched records of the sources, as they are at time 1 or 2
MaxFetched == 1
FetchedRecords ==
    {[source |-> SourceGroup(k), location |-> ExternalRecord(k, t)] :
        k \in ExternalKeys, t \in 1..2}
FetchResults == UNION {[1..n -> FetchedRecords] : n \in 0..MaxFetched}

QryIdle == [pc |-> "idle", location_type |-> None, rating_min |-> FracOfInt(0),
            radius |-> 0, user_lat |-> None, user_lng |-> None,
            include_external |-> TRUE, external_data |-> <<>>, locations |-> <<>>,
            read_failed |-> FALSE, fetch_failed |-> FALSE]

\* Lines 88-149: read the parameters, go through the persisted locations
GetLocationsPersisted(location_type, rating_min, radius, user_lat, user_lng, include_external) ==
    /\ qry.pc = "idle"
    /\ LET q == [QryIdle EXCEPT !.location_type = location_type,
                                !.rating_min = rating_min, !.radius = radius,
                                !.user_lat = user_lat, !.user_lng = user_lng,
                                !.include_external = include_external]
       IN qry' = [q EXCEPT !.pc = IF FetchesExternal(q) THEN "external" ELSE "done",
                           !.locations =
                               PersistedPass(StreamFrom(locations, location_type, 1), q)]
    /\ UNCHANGED <<locations, ratings, nextId, now, sub, syn, overlap, rf, api_cache, agg, ext>>

\* Lines 152-199: fetch the external locations, append those that pass
GetLocationsExternal(fetched) ==
    /\ qry.pc = "external"
    /\ IsFloat(qry.user_lat) /\ IsFloat(qry.user_lng)
    /\ qry' = [qry EXCEPT !.pc = "done", !.external_data = fetched,
                          !.locations = @ \o ExternalPass(fetched, qry)]
    /\ UNCHANGED <<locations, ratings, nextId, now, sub, syn, overlap, rf, api_cache, agg, ext>>

\* Lines 154-155 and 200-202: a coordinate does not parse, float() raises,
\* the error is logged and the list stays as the persisted pass left it
GetLocationsExternalError ==
    /\ qry.pc = "external"
    /\ ~(IsFloat(qry.user_lat) /\ IsFloat(qry.user_lng))
    /\ qry' = [qry EXCEPT !.pc = "done", !.fetch_failed = TRUE]
    /\ UNCHANGED <<locations, ratings, nextId, now, sub, syn, overlap, rf, api_cache, agg, ext>>

\* Lines 99-149 when the read of the store raises (the stream breaks, or a
\* document has a total_ratings that does not compare with 0) after k
\* documents were gone through, the last one of the stream at most: line
\* 147 catches the exception and logs it, the locations appended so far
\* stay in the list
GetLocationsReadFails(location_type, rating_min, radius, user_lat, user_lng, include_external, k) ==
    /\ qry.pc = "idle"
    /\ k <= Len(StreamFrom(locations, location_type, 1))
    /\ LET q == [QryIdle EXCEPT !.location_type = location_type,
                                !.rating_min = rating_min, !.radius = radius,
                                !.user_lat = user_lat, !.user_lng = user_lng,
                                !.include_external = include_external,
                                !.read_failed = TRUE]
           read == SubSeq(StreamFrom(locations, location_type, 1), 1, k)
       IN qry' = [q EXCEPT !.pc = IF FetchesExternal(q) THEN "external" ELSE "done",
                           !.locations = PersistedPass(read, q)]
    /\ UNCHANGED <<locations, ratings, nextId, now, sub, syn, overlap, rf, api_cache, agg, ext>>

\* Lines 152-161 and 200-202: get_all_external_locations raises (an adapter
\* lets an exception through), nothing is appended
GetLocationsFetchFails ==
    /\ qry.pc = "external"
    /\ IsFloat(qry.user_lat) /\ IsFloat(qry.user_lng)
    /\ qry' = [qry EXCEPT !.pc = "done", !.fetch_failed = TRUE]
    /\ UNCHANGED <<locations, ratings, nextId, now, sub, syn, overlap, rf, api_cache, agg, ext>>

\* Lines 175-202: calculate_distance raises on record k + 1 of the fetched
\* locations (math.sin of a coordinate that is not finite: math domain
\* error); line 200 catches it, the locations appended so far stay
GetLocationsAppendFails(fetched, k) ==
    /\ qry.pc = "external"
    /\ IsFloat(qry.user_lat) /\ IsFloat(qry.user_lng)
    /\ qry.radius > 0
    /\ k < Len(fetched)
    /\ qry' = [qry EXCEPT !.pc = "done", !.fetch_failed = TRUE,
                          !.external_data = fetched,
                          !.locations = @ \o ExternalPass(SubSeq(fetched, 1, k), qry)]
    /\ UNCHANGED <<locations, ratings, nextId, now, sub, syn, overlap, rf, api_cache, agg, ext>>

\* The counts a stored location may have come to
StoredCounts ==
    { [positive_count |-> 0, neutral_count |-> 0, negative_count |-> 0, total_ratings |-> 0],
      [positive_count |-> 1, neutral_count |-> 0, negative_count |-> 0, total_ratings |-> 1],
      [positive_count |-> 1, neutral_count |-> 1, negative_count |-> 0, total_ratings |-> 2],
      [positive_count |-> 0, neutral_count |-> 0, negative_count |-> 1, total_ratings |-> 1] }

\* The documents the store may hold when a request comes: locations that
\* users submitted (no source) and external records a sync saved, each
\* with the counts its ratings have brought it to.  The database has other
\* clients than this backend: lines 127-130 are written for a location
\* without a source that has no rating yet, which submit_rating never makes.
StoredDocs(id) ==
    {c @@ [name |-> "Cafe", type |-> ty, lat |-> la, lng |-> 0] :
        c \in StoredCounts, ty \in {"restroom", "police"}, la \in 2..3}
    \cup {c @@ Put(ExternalRecord(k, 1), "id", id) :
        c \in StoredCounts, k \in ExternalKeys}

\* number of documents in the store of a get_locations request
MaxStored == 1

QueryStores ==
    UNION {{st \in [1..n -> StoredDocs(1) \cup StoredDocs(2)] :
                \A id \in 1..n : st[id] \in StoredDocs(id)} : n \in 0..MaxStored}

-----------------------------------------------------------------------------
(* get_refuge_restrooms, external_apis.py 33-160 *)

\* largest per_page of a call
MaxPerPage == 3
\* largest max_results of a call
MaxResults == 4
\* largest starting page of a call
MaxStartPage == 2

\* Line 31: the age in seconds at which a cache entry ends
CACHE_EXPIRATION == 24 * 60 * 60

\* Line 51, the f-string of the cache key: its parts, page and per_page not
\* among them (ada and unisex as str() writes them: 'None', 'True', 'False')
CacheKey(lat, lng, max_results, ada, unisex) ==
    <<"refuge_restrooms", lat, lng, max_results, ada, unisex>>

\* (a slip of line 54: <= for <)
CacheIsFreshAtExpiry(timestamp, t) == t - timestamp <= CACHE_EXPIRATION

\* Line 54: the entry stamped `timestamp` is still valid at time t
CacheIsFresh(timestamp, t) == t - timestamp < CACHE_EXPIRATION

\* Line 54: the cache has a valid entry for the key
CacheHit(cache, cache_key, t) ==
    cache_key \in DOMAIN cache /\ CacheIsFresh(cache[cache_key].timestamp, t)

\* Lines 151-154: the entry of the key is replaced
CacheStore(cache, cache_key, data, t) ==
    (cache_key :> [data |-> data, timestamp |-> t]) @@ cache

\* The item the remote directory holds at place j of page `page` (the
\* coordinates as the JSON text has them)
RemoteItem(page, per_page, j) ==
    [id |-> (page - 1) * per_page + j, name |-> "Restroom", street |-> "",
     latitude |-> "1", longitude |-> "0"]

\* response.json() of a page on which the remote has n items
PageData(page, per_page, n) == [j \in 1..n |-> RemoteItem(page, per_page, j)]

\* A page whose first item has "latitude": null
MalformedPageData(page, per_page, n) ==
    [j \in 1..n |-> IF j = 1 THEN [RemoteItem(page, per_page, j) EXCEPT !.latitude = None]
                    ELSE RemoteItem(page, per_page, j)]

\* Line 74: ceiling division
MaxPages(max_results, per_page) == (max_results + per_page - 1) \div per_page

\* (a slip of line 92: only the empty page ends the fetch)
PageEndsFetchWhenEmpty(page_data, per_page) == page_data = <<>>

\* Line 92: the page is empty or shorter than asked for
PageEndsFetch(page_data, per_page) == page_data = <<>> \/ Len(page_data) < per_page

\* (a slip of lines 107-108: the list is left as long as it is)
TrimNothing(all_data, max_results) == all_data

\* Lines 107-108: all_data[:max_results]
Trim(all_data, max_results) ==
    IF Len(all_data) > max_results THEN SubSeq(all_data, 1, max_results) ELSE all_data

\* Lines 136-137: float() of a coordinate of the item raises (TypeError for
\* null, ValueError for a text that is no number)
TransformItemRaises(item) ==
    \/ ~IsFloat(Get(item, "latitude", "0"))
    \/ ~IsFloat(Get(item, "longitude", "0"))

\* Lines 115-148: the normalized record of an item
TransformItem(item, t) ==
    LET street == Get(item, "street", "")
        address == IF street # "" THEN street ELSE "Unknown Address"
    IN [ name |-> Get(item, "name", "Unknown Restroom"), type |-> "restroom",
         address |-> address,
         lat |-> ParseFloat(Get(item, "latitude", "0")),
         lng |-> ParseFloat(Get(item, "longitude", "0")),
         positive_count |-> 0, neutral_count |-> 0, negative_count |-> 0,
         total_ratings |-> 0,
         source |-> "refuge_restrooms", external_id |-> ToString(Get(item, "id", "")),
         ada_accessible |-> Get(item, "accessible", FALSE),
         unisex |-> Get(item, "unisex", FALSE), last_updated |-> t ]

\* Lines 106-148, after the loop: trim, transform
TransformAll(all_data, max_results, t) ==
    LET trimmed == Trim(all_data, max_results)
    IN [j \in 1..Len(trimmed) |-> TransformItem(trimmed[j], t)]

\* The transform of lines 115-148 raises on one of the items it goes through
TransformRaises(all_data, max_results) ==
    LET trimmed == Trim(all_data, max_results)
    IN \E j \in 1..Len(trimmed) : TransformItemRaises(trimmed[j])

\* `requests` is the history of the call: the page number and the length of
\* each page it has received; `calls` counts the calls that have returned
RfIdle == [pc |-> "idle", per_page |-> 1, max_results |-> 0, all_data |-> <<>>,
           current_page |-> 1, max_pages |-> 0, requests |-> <<>>,
           result |-> <<>>, failed |-> FALSE,
           cache_key |-> <<>>, cached |-> FALSE, calls |-> 0]

\* Lines 51-77: the call starts.  With a valid cache entry it returns the
\* entry's data; else the loop is entered if max_results > 0, and if not the
\* empty list is transformed, cached and returned (lines 106-156)
RefugeStart(lat, lng, page, per_page, max_results, ada, unisex) ==
    /\ rf.pc = "idle"
    /\ LET cache_key == CacheKey(lat, lng, max_results, ada, unisex)
           call == [RfIdle EXCEPT !.cache_key = cache_key, !.calls = rf.calls,
                                  !.per_page = per_page, !.max_results = max_results]
       IN IF CacheHit(api_cache, cache_key, now)
          THEN /\ rf' = [call EXCEPT !.pc = "done", !.cached = TRUE,
                                     !.result = api_cache[cache_key].data]
               /\ UNCHANGED api_cache
          ELSE /\ rf' = [call EXCEPT !.pc = IF 0 < max_results THEN "loop" ELSE "done",
                                     !.current_page = page,
                                     !.max_pages = MaxPages(max_results, per_page)]
               /\ api_cache' = IF 0 < max_results THEN api_cache
                               ELSE CacheStore(api_cache, cache_key, <<>>, now)
    /\ UNCHANGED <<locations, ratings, nextId, now, sub, syn, overlap, qry, agg, ext>>

\* Lines 77-156, one round of the loop on the page the remote answers with:
\* go round again, or leave the loop, trim, transform, cache and return;
\* an exception of the transform is not caught by line 158 and leaves the
\* call without a result and without a cache entry
RefugeRound(page_data) ==
    /\ rf.pc = "loop"
    /\ LET all_data == rf.all_data \o page_data
           requests == Append(rf.requests, [page |-> rf.current_page, n |-> Len(page_data)])
           leaves == \/ PageEndsFetch(page_data, rf.per_page)
                     \/ Len(all_data) >= rf.max_results
                     \/ rf.current_page + 1 > rf.max_pages
           raises == leaves /\ TransformRaises(all_data, rf.max_results)
           result == IF leaves /\ ~raises
                     THEN TransformAll(all_data, rf.max_results, now) ELSE <<>>
       IN /\ rf' = [rf EXCEPT
                      !.all_data = all_data,
                      !.requests = requests,
                      !.current_page = IF PageEndsFetch(page_data, rf.per_page)
                                       THEN @ ELSE @ + 1,
                      !.pc = IF raises THEN "raised" ELSE IF leaves THEN "done" ELSE "loop",
                      !.result = result]
          /\ api_cache' = IF leaves /\ ~raises
                          THEN CacheStore(api_cache, rf.cache_key, result, now)
                          ELSE api_cache
    /\ UNCHANGED <<locations, ratings, nextId, now, sub, syn, overlap, qry, agg, ext>>

\* A round on a page of n well-formed items
RefugeFetch(n) ==
    /\ n >= 0
    /\ RefugeRound(PageData(rf.current_page, rf.per_page, n))

\* A round on a page of n items, the first with a null latitude
RefugeFetchMalformed(n) ==
    /\ n >= 1
    /\ RefugeRound(MalformedPageData(rf.current_page, rf.per_page, n))

\* Lines 83-84 and 158-160: the request fails, the call returns []
RefugeFail ==
    /\ rf.pc = "loop"
    /\ rf' = [rf EXCEPT !.pc = "done", !.failed = TRUE, !.result = <<>>,
                        !.requests = Append(@, [page |-> rf.current_page, n |-> 0 - 1])]
    /\ UNCHANGED <<locations, ratings, nextId, now, sub, syn, overlap, qry, api_cache, agg, ext>>

\* number of get_refuge_restrooms calls, one after the other
MaxCalls == 2
\* number of steps of each kind the clock takes
MaxTicks == 2

\* The call has returned or raised: the next call may come
RefugeReturn ==
    /\ rf.pc \in {"done", "raised"}
    /\ rf.calls + 1 < MaxCalls
    /\ rf' = [RfIdle EXCEPT !.calls = rf.calls + 1]
    /\ UNCHANGED <<locations, ratings, nextId, now, sub, syn, overlap, qry, api_cache, agg, ext>>

\* time.time() moves on by d seconds: by one second, or by one second less
\* than CACHE_EXPIRATION (MaxTicks steps of each length at most)
Tick(d) ==
    /\ d \in {1, CACHE_EXPIRATION - 1}
    /\ IF d = 1 THEN (now - 1) % (CACHE_EXPIRATION - 1) < MaxTicks
       ELSE (now - 1) \div (CACHE_EXPIRATION - 1) < MaxTicks
    /\ now' = now + d
    /\ UNCHANGED <<locations, ratings, nextId, sub, syn, overlap, qry, rf, api_cache, agg, ext>>

-----------------------------------------------------------------------------
(* The store under its writers *)

\* The writes of a sync call that finds none of its locations in the store
RECURSIVE FirstBatch(_, _)
FirstBatch(locs, first_id) ==
    IF locs = <<>> THEN <<>>
    ELSE <<[op |-> "set", ref |-> first_id, data |-> Put(Head(locs), "id", first_id)]>>
         \o FirstBatch(Tail(locs), first_id + 1)

\* app.py 59-66: before the first request is served, the module has run
\* update_all_external_locations once against the store; the call has saved
\* the list it aggregated (at time 1), or has failed and saved nothing.
StartupStores ==
    {EmptyDict} \cup
    {ApplyBatch(EmptyDict, FirstBatch([j \in 1..Len(keys) |-> ExternalRecord(keys[j], 1)], 1)) :
        keys \in KeyLists}

-----------------------------------------------------------------------------
(* get_all_external_locations, external_apis.py 331-352, and its callers   *)
(* get_external_locations, app.py 233-269, and                             *)
(* update_all_external_locations, external_apis.py 395-422                 *)

\* Line 344: the per_page of the aggregation's get_refuge_restrooms call
RefugePerPage == 50
\* Line 331 (and line 395, app.py 53 and 62): max_restrooms
DefaultMaxRestrooms == 1000

\* Lines 162-203, get_goweewee_restrooms: the mock restrooms (the first of
\* the ten stands for them)
GoweeweeMock(lat, lng, t) ==
    << [ name |-> "GoweeWee Restroom 1", type |-> "restroom",
         address |-> "Mock Address 1, Mock City, MA", lat |-> lat, lng |-> lng,
         positive_count |-> 0, neutral_count |-> 0, negative_count |-> 0,
         total_ratings |-> 0,
         source |-> "goweewee", external_id |-> "goweewee-1",
         ada_accessible |-> TRUE, unisex |-> TRUE, last_updated |-> t ] >>

\* Lines 293-329, generate_mock_police_stations (the first of the eight)
MockStations(t) ==
    << [ name |-> "Mock Police Station 1", type |-> "police",
         address |-> "Mock Address 1, Boston, MA", lat |-> 0, lng |-> 0,
         positive_count |-> 0, neutral_count |-> 0, negative_count |-> 0,
         total_ratings |-> 0,
         source |-> "csv", external_id |-> "mock-police-1", last_updated |-> t ] >>

\* Lines 205-291, load_police_stations_from_csv: the stations of the file,
\* or the mock stations when the file is missing or reading it raises
PoliceLoads(t) == { <<ExternalRecord(<<"csv", "">>, t)>>, MockStations(t) }

EmptyAggregation ==
    [refuge_restrooms |-> <<>>, goweewee_restrooms |-> <<>>, police_stations |-> <<>>]

\* The lists of the mapping one after the other, in the order of its keys
Flatten(external_locations) ==
    external_locations.refuge_restrooms \o external_locations.goweewee_restrooms
    \o external_locations.police_stations

AggIdle == [pc |-> "idle", lat |-> 0, lng |-> 0, max_restrooms |-> 0,
            result |-> EmptyAggregation]

\* The call of get_all_external_locations(lat, lng, ...) begins
AggCalled(lat, lng) ==
    [AggIdle EXCEPT !.pc = "refuge", !.lat = lat, !.lng = lng,
                    !.max_restrooms = DefaultMaxRestrooms]

ExtIdle == [kind |-> "none", pc |-> "idle", lat |-> None, lng |-> None, status |-> 0,
            all_locations |-> <<>>, response |-> <<>>, saver |-> 0]

\* The texts of the radius parameter: absent, or one that is no number
RadiusTexts == {None, "abc"}

\* app.py 236-250: read the parameters (float() of the radius first), answer
\* 400 without lat or lng, parse them, call the aggregation; an exception
\* of float() is answered 500 by lines 266-269
ExternalLocationsRequest(lat, lng, radius) ==
    /\ ext.pc = "idle"
    /\ LET request == [ExtIdle EXCEPT !.kind = "endpoint", !.lat = lat, !.lng = lng]
           raises == \/ radius # None /\ ~IsFloat(radius)
                     \/ /\ TruthyStr(lat) /\ TruthyStr(lng)
                        /\ ~(IsFloat(lat) /\ IsFloat(lng))
           missing == ~TruthyStr(lat) \/ ~TruthyStr(lng)
       IN IF radius # None /\ ~IsFloat(radius)
          THEN ext' = [request EXCEPT !.pc = "done", !.status = 500] /\ UNCHANGED agg
          ELSE IF missing
          THEN ext' = [request EXCEPT !.pc = "done", !.status = 400] /\ UNCHANGED agg
          ELSE IF raises
          THEN ext' = [request EXCEPT !.pc = "done", !.status = 500] /\ UNCHANGED agg
          ELSE /\ ext' = [request EXCEPT !.pc = "aggregate"]
               /\ agg' = AggCalled(ParseFloat(lat), ParseFloat(lng))
    /\ UNCHANGED <<locations, ratings, nextId, now, sub, syn, overlap, qry, rf, api_cache>>

\* external_apis.py 395-412: update_all_external_locations calls the
\* aggregation for its default place
UpdateAllStart ==
    /\ ext.pc = "idle"
    /\ ext' = [ExtIdle EXCEPT !.kind = "update", !.pc = "aggregate"]
    /\ agg' = AggCalled(0, 0)
    /\ UNCHANGED <<locations, ratings, nextId, now, sub, syn, overlap, qry, rf, api_cache>>

\* Line 344: the aggregation calls get_refuge_restrooms
AggCallsRefuge ==
    /\ agg.pc = "refuge"
    /\ RefugeStart(agg.lat, agg.lng, 1, RefugePerPage, agg.max_restrooms, None, None)

\* Lines 344-352: get_refuge_restrooms has returned; the mock restrooms and
\* the police stations are added and the mapping is returned
AggCollect(police_stations) ==
    /\ agg.pc = "refuge" /\ rf.pc = "done"
    /\ agg' = [agg EXCEPT !.pc = "done",
                          !.result = [refuge_restrooms |-> rf.result,
                                      goweewee_restrooms |-> GoweeweeMock(agg.lat, agg.lng, now),
                                      police_stations |-> police_stations]]
    /\ rf' = RfIdle
    /\ UNCHANGED <<locations, ratings, nextId, now, sub, syn, overlap, qry, api_cache, ext>>

\* Line 344: get_refuge_restrooms has raised; nothing in
\* get_all_external_locations catches the exception
AggRaises ==
    /\ agg.pc = "refuge" /\ rf.pc = "raised"
    /\ agg' = [agg EXCEPT !.pc = "raised"]
    /\ rf' = RfIdle
    /\ UNCHANGED <<locations, ratings, nextId, now, sub, syn, overlap, qry, api_cache, ext>>

\* save_external_locations_to_firebase(db, all_locations) begins as call s
SaveCalled(s, all_locations) ==
    [syn EXCEPT ![s] = [SynIdle EXCEPT !.pc = IF all_locations = <<>> THEN "commit" ELSE "loop",
                                       !.locations = all_locations]]

\* app.py 252-262: flatten the mapping, start the thread that saves the list
ExternalLocationsSave(s) ==
    /\ ext.kind = "endpoint" /\ ext.pc = "aggregate" /\ agg.pc = "done"
    /\ syn[s].pc = "idle"
    /\ ext' = [ext EXCEPT !.pc = "respond", !.all_locations = Flatten(agg.result),
                          !.saver = s]
    /\ syn' = SaveCalled(s, Flatten(agg.result))
    /\ UNCHANGED <<locations, ratings, nextId, now, sub, overlap, qry, rf, api_cache, agg>>

\* app.py 264-265: the list as it is now is the body of the answer
ExternalLocationsRespond ==
    /\ ext.kind = "endpoint" /\ ext.pc = "respond"
    /\ ext' = [ext EXCEPT !.pc = "done", !.status = 200, !.response = ext.all_locations]
    /\ UNCHANGED <<locations, ratings, nextId, now, sub, syn, overlap, qry, rf, api_cache, agg>>

\* app.py 266-269: the aggregation has raised, answer 500
ExternalLocationsError ==
    /\ ext.kind = "endpoint" /\ ext.pc = "aggregate" /\ agg.pc = "raised"
    /\ ext' = [ext EXCEPT !.pc = "done", !.status = 500]
    /\ UNCHANGED <<locations, ratings, nextId, now, sub, syn, overlap, qry, rf, api_cache, agg>>

\* external_apis.py 414-420: combine the lists, call the save
UpdateAllSave(s) ==
    /\ ext.kind = "update" /\ ext.pc = "aggregate" /\ agg.pc = "done"
    /\ syn[s].pc = "idle"
    /\ ext' = [ext EXCEPT !.pc = "saving", !.all_locations = Flatten(agg.result),
                          !.saver = s]
    /\ syn' = SaveCalled(s, Flatten(agg.result))
    /\ UNCHANGED <<locations, ratings, nextId, now, sub, overlap, qry, rf, api_cache, agg>>

\* external_apis.py 420-422: the save has returned, the update returns
UpdateAllReturn ==
    /\ ext.kind = "update" /\ ext.pc = "saving" /\ syn[ext.saver].pc = "done"
    /\ ext' = [ext EXCEPT !.pc = "done"]
    /\ UNCHANGED <<locations, ratings, nextId, now, sub, syn, overlap, qry, rf, api_cache, agg>>

\* external_apis.py 412: the aggregation has raised and the exception leaves
\* update_all_external_locations (app.py 64 logs it at startup; in the
\* scheduler and in the refresh thread nothing catches it)
UpdateAllRaises ==
    /\ ext.kind = "update" /\ ext.pc = "aggregate" /\ agg.pc = "raised"
    /\ ext' = [ext EXCEPT !.pc = "raised"]
    /\ UNCHANGED <<locations, ratings, nextId, now, sub, syn, overlap, qry, rf, api_cache, agg>>

\* The requests and sync calls that have not started; "off" is a process
\* that takes no part in the run.
InitStore(stores, n_submits, n_syncs) ==
    /\ locations \in stores
    /\ ratings = <<>>
    /\ nextId = Cardinality(DOMAIN locations) + 1
    /\ now = IF locations = EmptyDict THEN 1 ELSE 2
    /\ sub = [p \in SubmitIds |-> IF p <= n_submits THEN SubIdle
                                   ELSE [SubIdle EXCEPT !.pc = "off"]]
    /\ syn = [s \in SyncIds |-> IF s <= n_syncs THEN SynIdle
                                 ELSE [SynIdle EXCEPT !.pc = "off"]]
    /\ overlap = FALSE
    /\ qry = QryIdle
    /\ rf = RfIdle
    /\ api_cache = EmptyDict
    /\ agg = AggIdle
    /\ ext = ExtIdle

\* One rating request against one sync call, after the startup sync
Init == InitStore(StartupStores, 1, 1)

\* The rating requests of the run, after the startup sync
RatingInit == InitStore(StartupStores, MaxSubmits, 0)

\* The sync calls of the run, the startup sync among them
SyncInit == InitStore({EmptyDict}, 0, MaxSyncs)

SubmitSteps ==
    \/ \E p \in SubmitIds, rating \in RatingInputs, is_new \in BOOLEAN,
          ldata \in LocationDataInputs : SubmitSetRating(p, rating, is_new, ldata)
    \/ \E p \in SubmitIds : SubmitCreate(p)
    \/ \E p \in SubmitIds : SubmitLink(p)
    \/ \E p \in SubmitIds : SubmitGet(p)
    \/ \E p \in SubmitIds : SubmitUpdate(p)
    \/ \E p \in SubmitIds : SubmitNotFound(p)
    \/ \E p \in SubmitIds : SubmitError(p)

SyncSteps ==
    \/ \E s \in SyncIds, keys \in KeyLists : SyncStart(s, keys)
    \/ \E s \in SyncIds : SyncLookup(s)
    \/ \E s \in SyncIds : SyncCommit(s)
    \/ \E s \in SyncIds : SyncFail(s)

Next == SubmitSteps \/ SyncSteps

\* A get_locations request against a store that no one writes meanwhile
QueryInit == InitStore(QueryStores, 0, 0)

QueryNext ==
    \/ \E location_type \in LocationTypes, rating_min \in RatingMins, radius \in Radii,
          user_lat \in UserLats, user_lng \in UserLngs, include_external \in BOOLEAN :
            GetLocationsPersisted(location_type, rating_min, radius, user_lat, user_lng,
                                  include_external)
    \/ \E fetched \in FetchResults : GetLocationsExternal(fetched)
    \/ GetLocationsExternalError

QuerySpec == QueryInit /\ [][QueryNext]_vars

\* A get_locations request whose store and whose external sources may fail
QueryFailNext ==
    \/ QueryNext
    \/ \E location_type \in LocationTypes, rating_min \in RatingMins, radius \in Radii,
          user_lat \in UserLats, user_lng \in UserLngs, include_external \in BOOLEAN,
          k \in 0..MaxStored :
            GetLocationsReadFails(location_type, rating_min, radius, user_lat, user_lng,
                                  include_external, k)
    \/ GetLocationsFetchFails
    \/ \E fetched \in FetchResults, k \in 0..MaxFetched : GetLocationsAppendFails(fetched, k)

QueryFailSpec == QueryInit /\ [][QueryFailNext]_vars

\* One get_refuge_restrooms call against a remote directory
RefugeInit == InitStore({EmptyDict}, 0, 0)

RefugeNext ==
    \/ \E page \in 1..MaxStartPage, per_page \in 1..MaxPerPage,
          max_results \in 0..MaxResults :
            RefugeStart(0, 0, page, per_page, max_results, None, None)
    \/ \E n \in 0..rf.per_page : RefugeFetch(n)
    \/ RefugeFail

RefugeSpec == RefugeInit /\ [][RefugeNext]_vars

\* The parameters of the calls that share the cache
CachedMaxResults == {1, 2}
CachedPerPages == {1, 2}
AdaValues == {None, "True"}

\* get_refuge_restrooms calls one after the other, the clock moving on, the
\* remote failing or sending a malformed item at times
CacheNext ==
    \/ \E per_page \in CachedPerPages, max_results \in CachedMaxResults, ada \in AdaValues :
          RefugeStart(0, 0, 1, per_page, max_results, ada, None)
    \/ \E n \in 0..rf.per_page : RefugeFetch(n)
    \/ \E n \in 1..rf.per_page : RefugeFetchMalformed(n)
    \/ RefugeFail
    \/ RefugeReturn
    \/ \E d \in {1, CACHE_EXPIRATION - 1} : Tick(d)

CacheSpec == RefugeInit /\ [][CacheNext]_vars

\* The remote answers the request of the call: with a page of any length
\* (longer than per_page too), well-formed or with a malformed first item
RefugeAnswers ==
    \/ \E n \in 0..rf.per_page + 1 : RefugeFetch(n)
    \/ \E n \in 1..rf.per_page + 1 : RefugeFetchMalformed(n)

RefugeAnswersNext ==
    \/ \E page \in 0..MaxStartPage, per_page \in 1..MaxPerPage,
          max_results \in 0..MaxResults :
            RefugeStart(0, 0, page, per_page, max_results, None, None)
    \/ RefugeAnswers

\* One get_refuge_restrooms call against a remote that answers every
\* request: the thread of the call goes on running, and each requests.get
\* of line 84 comes back with a page
RefugeAnswersSpec ==
    RefugeInit /\ [][RefugeAnswersNext]_vars /\ WF_vars(RefugeAnswers)

\* A rating request and a sync call running against each other
Spec == Init /\ [][Next]_vars

\* Rating requests running against each other
RatingSpec == RatingInit /\ [][SubmitSteps]_vars

\* Sync calls running against each other
SyncSpec == SyncInit /\ [][SyncSteps]_vars

\* The lists of keys in which no key comes twice
DistinctKeyLists ==
    {keys \in KeyLists : \A i, j \in 1..Len(keys) : keys[i] = keys[j] => i = j}

\* Sync calls running against each other, each with a list that names a key
\* once: the periodic refresh, the refresh thread of POST
\* /api/refresh-external-data and the thread GET /api/external-locations
\* starts all come to save_external_locations_to_firebase on the one store
ConcurrentSyncSteps ==
    \/ \E s \in SyncIds, keys \in DistinctKeyLists : SyncStart(s, keys)
    \/ \E s \in SyncIds : SyncLookup(s)
    \/ \E s \in SyncIds : SyncCommit(s)
    \/ \E s \in SyncIds : SyncFail(s)

ConcurrentSyncSpec == SyncInit /\ [][ConcurrentSyncSteps]_vars

\* The ratings of existing locations: a sentiment the handler knows and a
\* location_id (or none)
ExistingLocationRatings ==
    {MkRating(s, l) : s \in {"positive", "neutral", "negative"}, l \in 0..MaxLocId}

\* Requests that rate existing locations (is_new_location false), running
\* against each other after the startup sync
ConcurrentRatingSteps ==
    \/ \E p \in SubmitIds, rating \in ExistingLocationRatings :
          SubmitSetRating(p, rating, FALSE, EmptyDict)
    \/ \E p \in SubmitIds : SubmitGet(p)
    \/ \E p \in SubmitIds : SubmitUpdate(p)
    \/ \E p \in SubmitIds : SubmitNotFound(p)
    \/ \E p \in SubmitIds : SubmitError(p)

ConcurrentRatingSpec == RatingInit /\ [][ConcurrentRatingSteps]_vars

\* One caller of the aggregation, GET /api/external-locations or
\* update_all_external_locations, its adapters and its save, after the
\* startup sync: the remote may fail or send a malformed item, the store
\* calls of the save may fail
ExternalInit == InitStore(StartupStores, 0, 1)

ExternalNext ==
    \/ \E lat \in UserLats, lng \in UserLngs, radius \in RadiusTexts :
          ExternalLocationsRequest(lat, lng, radius)
    \/ UpdateAllStart
    \/ AggCallsRefuge
    \/ \E n \in 0..MaxPerPage : RefugeFetch(n)
    \/ \E n \in 1..MaxPerPage : RefugeFetchMalformed(n)
    \/ RefugeFail
    \/ \E police_stations \in PoliceLoads(now) : AggCollect(police_stations)
    \/ AggRaises
    \/ \E s \in SyncIds : ExternalLocationsSave(s)
    \/ ExternalLocationsRespond
    \/ ExternalLocationsError
    \/ \E s \in SyncIds : UpdateAllSave(s)
    \/ UpdateAllReturn
    \/ UpdateAllRaises
    \/ \E s \in SyncIds : SyncLookup(s)
    \/ \E s \in SyncIds : SyncCommit(s)
    \/ \E s \in SyncIds : SyncFail(s)

ExternalSpec == ExternalInit /\ [][ExternalNext]_vars

-----------------------------------------------------------------------------
(* The claims *)

CountFields == {"positive_count", "neutral_count", "negative_count", "total_ratings"}
DisplayFields == {"name", "address", "lat", "lng", "last_updated"}

\* C1: every stored location has total_ratings = positive_count +
\* neutral_count + negative_count, whatever ratings were submitted and
\* whatever was synced.
C1_TotalIsSumOfCounts ==
    \A id \in DOMAIN locations :
        locations[id].total_ratings =
            locations[id].positive_count + locations[id].neutral_count
            + locations[id].negative_count

\* The documents of the store with the key (source, external_id)
DocsWithKey(k) ==
    {id \in DOMAIN locations :
        /\ Get(locations[id], "source", None) = k[1]
        /\ Get(locations[id], "external_id", None) = k[2]}

\* C2: after any sequence of completed sync calls, one after the other, the
\* store holds at most one record per (source, external_id).
C2_OneRecordPerKey ==
    (~overlap /\ \A s \in SyncIds : ~SyncInProgress(s))
        => \A k \in ExternalKeys : Cardinality(DocsWithKey(k)) <= 1

\* C3: a step of a sync call leaves every field of every stored location
\* as it is, but for name, address, lat, lng and last_updated: the counts,
\* whenever they were brought about, are not reset.
C3_SyncKeepsCounts ==
    [][sub' = sub =>
        \A id \in DOMAIN locations :
            /\ id \in DOMAIN locations'
            /\ \A f \in DOMAIN locations[id] \ DisplayFields :
                  /\ f \in DOMAIN locations'[id]
                  /\ locations'[id][f] = locations[id][f]
            /\ DOMAIN locations'[id] \subseteq DOMAIN locations[id] \cup DisplayFields]_vars

\* A sync call has written its record over the persisted record 1, which
\* has a rating.
C3_Witness ==
    /\ \E s \in SyncIds : syn[s].pc = "done" /\ ~syn[s].failed
    /\ 1 \in DOMAIN locations
    /\ TruthyStr(Get(locations[1], "source", None))
    /\ locations[1].last_updated = 2
    /\ locations[1].total_ratings > 0

\* The count field of a sentiment
CountOf(sentiment) ==
    IF sentiment = "positive" THEN "positive_count"
    ELSE IF sentiment = "neutral" THEN "neutral_count" ELSE "negative_count"

\* C4: the step of submit_rating that updates an existing location with a
\* sentiment of positive, neutral or negative adds 1 to total_ratings and 1
\* to the count of the sentiment, and changes nothing else in the store.
C4_RatingAddsOne ==
    [][\A p \in SubmitIds :
        (/\ sub[p].pc = "update"
         /\ sub'[p].pc = "done" /\ sub'[p].status = 201
         /\ Get(sub[p].rating_data, "sentiment", None) \in {"positive", "neutral", "negative"})
        => LET id == sub[p].location_ref
               mine == CountOf(sub[p].rating_data.sentiment)
           IN /\ DOMAIN locations' = DOMAIN locations
              /\ \A other \in DOMAIN locations \ {id} : locations'[other] = locations[other]
              /\ locations'[id].total_ratings = locations[id].total_ratings + 1
              /\ locations'[id][mine] = locations[id][mine] + 1
              /\ \A f \in DOMAIN locations[id] \ {"total_ratings", mine} :
                    locations'[id][f] = locations[id][f]
              /\ DOMAIN locations'[id] = DOMAIN locations[id]]_vars

\* A request has rated an existing location negative and was answered 201.
C4_Witness ==
    \E p \in SubmitIds :
        /\ sub[p].pc = "done" /\ sub[p].status = 201 /\ ~sub[p].is_new_location
        /\ Get(ratings[sub[p].rating_ref], "sentiment", None) = "negative"
        /\ locations[sub[p].location_ref].negative_count >= 1

\* C5: the location submit_rating creates has exactly one of its three
\* counts at 1, the one of the rating's sentiment, the two others at 0, and
\* total_ratings at 1.
C5_NewLocationCounts ==
    [][\A p \in SubmitIds :
        (sub[p].pc = "create" /\ sub'[p].pc = "link")
        => LET doc == locations'[sub'[p].location_ref]
               sentiment == Get(sub[p].rating_data, "sentiment", None)
           IN /\ doc.total_ratings = 1
              /\ Cardinality({f \in CountFields \ {"total_ratings"} : doc[f] = 1}) = 1
              /\ Cardinality({f \in CountFields \ {"total_ratings"} : doc[f] = 0}) = 2
              /\ doc[CountOf(sentiment)] = 1]_vars

\* C6: a request with is_new_location true is never answered 404.
C6_NewLocationNeverNotFound ==
    \A p \in SubmitIds :
        (sub[p].pc = "done" /\ sub[p].is_new_location) => sub[p].status # 404

\* C7: a request on the else branch whose location_id names no stored
\* location goes to the 404 answer and nowhere else, and no step it takes
\* from its start to that answer changes the locations collection.
C7_UnknownLocationNotFound ==
    [][\A p \in SubmitIds :
        /\ (sub[p].pc = "get" /\ sub'[p].pc \in {"update", "notfound"})
              => (sub'[p].pc = "notfound"
                    <=> Get(sub[p].rating_data, "location_id", NoDoc) \notin DOMAIN locations)
        /\ (sub[p].pc = "notfound" /\ sub'[p] # sub[p])
              => (sub'[p].pc = "done" /\ sub'[p].status = 404)
        /\ (sub'[p] # sub[p] /\ (sub'[p].pc \in {"get", "notfound"}
                                  \/ (sub'[p].pc = "done" /\ sub'[p].status = 404)))
              => locations' = locations]_vars

\* A request with is_new_location false was answered 404.
C7_Witness ==
    \E p \in SubmitIds :
        sub[p].pc = "done" /\ sub[p].status = 404 /\ ~sub[p].is_new_location

\* The list of the request holds the persisted location id
Listed(id) == \E i \in 1..Len(qry.locations) : qry.locations[i].id = id

\* The persisted location passes the filters other than the rating filter
PassesOtherFilters(id) ==
    /\ TypeFilterApplies(qry.location_type) => locations[id].type = qry.location_type
    /\ ~ExternalSkips(locations[id], qry.include_external)
    /\ ~DistanceSkips(locations[id], qry.user_lat, qry.user_lng, qry.radius)

\* C8: with rating_min > 0, after the persisted pass, a location with
\* total_ratings = 0 is in the list if it has a source and is not if it has
\* none, and a location with total_ratings > 0 is left out exactly when
\* ((positive_count - negative_count) / total_ratings + 1) / 2 * 5 is below
\* rating_min (of the locations the other filters let through).
C8_RatingFilter ==
    (qry.pc # "idle" /\ qry.external_data = <<>> /\ qry.rating_min[1] > 0)
    => \A id \in DOMAIN locations :
          PassesOtherFilters(id) =>
            LET doc == locations[id]
                below == 5 * (doc.positive_count - doc.negative_count + doc.total_ratings)
                            * qry.rating_min[2]
                         < qry.rating_min[1] * 2 * doc.total_ratings
            IN IF doc.total_ratings = 0
               THEN Listed(id) <=> Get(doc, "source", None) \notin {None, ""}
               ELSE ~Listed(id) <=> below

\* A request with rating_min > 0 has an external location without ratings
\* in its list.
C8_Witness ==
    /\ qry.pc # "idle" /\ qry.external_data = <<>> /\ qry.rating_min[1] > 0
    /\ \E id \in DOMAIN locations :
          /\ locations[id].total_ratings = 0
          /\ TruthyStr(Get(locations[id], "source", None))
          /\ Listed(id)

\* The record is in the list of the request (its id apart)
ListedRecord(location) ==
    \E i \in 1..Len(qry.locations) :
        \A f \in DOMAIN location \ {"id"} :
            f \in DOMAIN qry.locations[i] /\ qry.locations[i][f] = location[f]

\* The request has a center and a radius
HasCenterAndRadius == qry.radius > 0 /\ IsFloat(qry.user_lat) /\ IsFloat(qry.user_lng)

\* Kilometres from the center of the request
FromCenter(location) == Abs(Get(location, "lat", 0) - ParseFloat(qry.user_lat))

\* C9: with a center and a radius > 0, no location of the list, persisted
\* or fetched, is farther than radius from the center, and a location at
\* exactly radius that passes the other filters is in the list.
C9_RadiusFilter ==
    (qry.pc # "idle" /\ HasCenterAndRadius)
    => /\ \A i \in 1..Len(qry.locations) : FromCenter(qry.locations[i]) <= qry.radius
       /\ \A id \in DOMAIN locations :
             (/\ FromCenter(locations[id]) = qry.radius
              /\ TypeFilterApplies(qry.location_type)
                    => locations[id].type = qry.location_type
              /\ ~ExternalSkips(locations[id], qry.include_external)
              /\ ~RatingSkips(locations[id], qry.rating_min))
             => ListedRecord(locations[id])
       /\ \A j \in 1..Len(qry.external_data) :
             (/\ FromCenter(qry.external_data[j].location) = qry.radius
              /\ TypeFilterApplies(qry.location_type)
                    => qry.external_data[j].location.type = qry.location_type)
             => ListedRecord(qry.external_data[j].location)

\* A request with a center and a radius has answered with a fetched location
\* at exactly radius in its list, and has left out a persisted location
\* farther away.
C9_Witness ==
    /\ qry.pc = "done" /\ HasCenterAndRadius
    /\ \E j \in 1..Len(qry.external_data) :
          /\ FromCenter(qry.external_data[j].location) = qry.radius
          /\ ListedRecord(qry.external_data[j].location)
    /\ \E id \in DOMAIN locations :
          FromCenter(locations[id]) > qry.radius /\ ~ListedRecord(locations[id])

\* The call has received a page shorter than per_page
ShortPageSeen ==
    \E i \in 1..Len(rf.requests) :
        rf.requests[i].n >= 0 /\ rf.requests[i].n < rf.per_page

\* The external_ids of the items of the i-th page the call received
PageIds(i) ==
    {ToString((rf.requests[i].page - 1) * rf.per_page + j) : j \in 1..rf.requests[i].n}

ResultIds == {rf.result[j].external_id : j \in 1..Len(rf.result)}

\* C10, as claimed: once a page is shorter than per_page no further page is
\* requested, and the items of that page are in the result.
C10_ShortPageEndsFetch_Claimed ==
    \A i \in 1..Len(rf.requests) :
        (rf.requests[i].n >= 0 /\ rf.requests[i].n < rf.per_page)
        => /\ i = Len(rf.requests)
           /\ rf.pc = "done"
           /\ PageIds(i) \subseteq ResultIds

\* C10, amended: once a page is shorter than per_page no further page is
\* requested, and the result is the first max_results of the items
\* received, in their order: the items of the short page are in the result
\* but for those past max_results.
C10_ShortPageEndsFetch ==
    \A i \in 1..Len(rf.requests) :
        (rf.requests[i].n >= 0 /\ rf.requests[i].n < rf.per_page)
        => /\ i = Len(rf.requests)
           /\ rf.pc = "done"
           /\ Len(rf.result) = IF Len(rf.all_data) < rf.max_results
                                THEN Len(rf.all_data) ELSE rf.max_results
           /\ \A j \in 1..Len(rf.result) :
                 rf.result[j].external_id = ToString(rf.all_data[j].id)
           /\ Len(rf.all_data) <= rf.max_results => PageIds(i) \subseteq ResultIds

\* A call has received a full page and then a short one, with fewer than
\* max_results items in all, and has returned the items of both.
C10_Witness ==
    /\ rf.pc = "done" /\ Len(rf.requests) = 2 /\ ShortPageSeen
    /\ rf.requests[2].n > 0
    /\ Len(rf.result) < rf.max_results
    /\ PageIds(2) \subseteq ResultIds

\* The call has returned its records without having met a failure
RefugeReturned == rf.pc = "done" /\ ~rf.failed

\* C11: whatever the starting page, per_page and max_results, the pages a
\* call asks for are consecutive, and it stops asking only when max_results
\* items are collected or a page came shorter than per_page.
C11_PagesUntilEnough ==
    /\ \A i \in 1..Len(rf.requests) :
          rf.requests[i].page = rf.requests[1].page + (i - 1)
    /\ (RefugeReturned /\ rf.max_results > 0)
          => (Len(rf.all_data) >= rf.max_results \/ ShortPageSeen)

\* C17: when the sync calls that ran against each other have ended, the
\* store holds one record per (source, external_id), in every interleaving.
C17_ConcurrentSyncsOneRecordPerKey ==
    (overlap /\ \A s \in SyncIds : syn[s].pc = "done")
        => \A k \in ExternalKeys : Cardinality(DocsWithKey(k)) <= 1

\* The requests answered 201 that named the stored location id
RatedBy(id) ==
    {p \in SubmitIds : sub[p].pc = "done" /\ sub[p].status = 201 /\ sub[p].location_ref = id}

\* The sentiment of the rating a request wrote
SentimentOf(p) == Get(ratings[sub[p].rating_ref], "sentiment", None)

\* C18: however the requests that rate one existing location interleave,
\* the location's total_ratings is higher by the number of these requests
\* and each count by the number of them with its sentiment (the existing
\* locations of the run are those of the startup sync, saved with counts 0).
C18_NoIncrementLost ==
    \A id \in DOMAIN locations :
        TruthyStr(Get(locations[id], "source", None))
        => /\ locations[id].total_ratings = Cardinality(RatedBy(id))
           /\ \A s \in {"positive", "neutral", "negative"} :
                 locations[id][CountOf(s)]
                    = Cardinality({p \in RatedBy(id) : SentimentOf(p) = s})

\* Two requests have rated the same existing location, one positive and one
\* negative, and both were answered 201.
C18_Witness ==
    \E id \in DOMAIN locations :
        /\ TruthyStr(Get(locations[id], "source", None))
        /\ RatedBy(id) = {1, 2}
        /\ SentimentOf(1) = "positive" /\ SentimentOf(2) = "negative"
        /\ locations[id].total_ratings = 2

C20_RatingsReferToLocations ==
    (\A p \in SubmitIds : sub[p].pc \in {"off", "idle", "done"})
        => \A i \in 1..Len(ratings) :
              Get(ratings[i], "location_id", NoDoc) \in DOMAIN locations

\* The persisted locations of the request's query that pass its filters
PersistedResults == PersistedPass(StreamFrom(locations, qry.location_type, 1), qry)

\* C13: a request whose read of the store failed, at whatever point, is
\* answered with the external results and nothing else; a request whose
\* external fetch failed, at whatever point, is answered with the
\* persisted results and nothing else.
C13_FailuresDegrade ==
    qry.pc = "done"
    => /\ (qry.read_failed /\ ~qry.fetch_failed)
             => Len(qry.locations) = Len(ExternalPass(qry.external_data, qry))
       /\ (qry.fetch_failed /\ ~qry.read_failed)
             => /\ Len(qry.locations) = Len(PersistedResults)
                /\ qry.locations = PersistedResults

C12_AdapterFailureIsolated ==
    /\ agg.pc # "raised"
    /\ agg.pc = "done"
          => /\ agg.result.goweewee_restrooms # <<>>
             /\ agg.result.police_stations # <<>>

\* C14: when a store call of the save fails, the step leaves the store as
\* it was before the call (the steps of the call before it wrote nothing),
\* the exception does not reach the caller, and the records of the caller's
\* list are the ones the aggregation returned, unchanged.
C14_FailedSaveLeavesRecords ==
    [][\A s \in SyncIds :
        /\ (SyncInProgress(s) /\ syn'[s] # syn[s] /\ syn'[s].pc # "done")
              => locations' = locations
        /\ (SyncInProgress(s) /\ syn'[s].pc = "done" /\ syn'[s].failed)
              => /\ locations' = locations
                 /\ ext.saver = s
                       => /\ ext'.pc # "raised"
                          /\ ext'.all_locations = Flatten(agg.result)]_vars

\* C15: a GET /api/external-locations request without lat or lng, or with
\* one that is no number, is answered 400, and neither the aggregation nor
\* a sync call is started for it.
C15_BadCoordinatesAre400 ==
    (ext.kind = "endpoint" /\ ext.pc = "done" /\ ~(IsFloat(ext.lat) /\ IsFloat(ext.lng)))
    => /\ ext.status = 400
       /\ agg.pc = "idle" /\ rf.pc = "idle"
       /\ ext.saver = 0

\* The (source, external_id) of a record of the list; user-submitted
\* records have no source and no such key
HasExternalKey(location) == TruthyStr(Get(location, "source", None))
ExternalKeyOf(location) ==
    <<Get(location, "source", None), Get(location, "external_id", None)>>

\* C21: the list a request with include_external true and a center
\* coordinate is answered with never holds two records with the same
\* (source, external_id), also when a record the store holds from an earlier
\* sync comes again with the fresh external fetch.
C21_ListHasOneRecordPerKey ==
    (qry.pc = "done" /\ FetchesExternal(qry))
    => \A i, j \in 1..Len(qry.locations) :
          (/\ HasExternalKey(qry.locations[i]) /\ HasExternalKey(qry.locations[j])
           /\ ExternalKeyOf(qry.locations[i]) = ExternalKeyOf(qry.locations[j]))
          => i = j

\* C22: against a remote that answers every request, a call with
\* per_page >= 1, max_results >= 0 and any starting page asks for at most
\* ceil(max_results / per_page) pages (k pages are within the bound when
\* (k - 1) * per_page < max_results), returns at most max_results records,
\* and ends: a call that is in its loop comes out of it.
C22_BoundedFetch ==
    /\ [](/\ Len(rf.requests) > 0
                => (Len(rf.requests) - 1) * rf.per_page < rf.max_results
          /\ rf.pc = "done" => Len(rf.result) <= rf.max_results)
    /\ (rf.pc = "loop") ~> (rf.pc \in {"done", "raised"})

\* A call has asked for two pages, the most its bound allows, has received
\* more items than max_results and has returned max_results records.
C22_Witness ==
    /\ rf.pc = "done" /\ Len(rf.requests) = 2
    /\ rf.per_page < rf.max_results /\ rf.max_results <= 2 * rf.per_page
    /\ Len(rf.all_data) > rf.max_results
    /\ Len(rf.result) = rf.max_results

====
